---- MODULE Spec2Model ----
(***************************************************************************)
(* Vehicle state machine of the racing client.                             *)
(*                                                                         *)
(* The module models two classes of the repository:                        *)
(*   - Car of src/client/src/lib/car.ts: health / disable lifecycle, race  *)
(*     start / finish / reset, nitro, autopilot, initialization grace;     *)
(*   - the Car variant of src/unnamed/part_007 (prefix "v"): crash reset   *)
(*     by timeout and the nitro countdown in update (the same countdown    *)
(*     block opens Car.update of src/unnamed/part_006).                    *)
(*                                                                         *)
(* Times are integers in milliseconds.  update(deltaTime) takes seconds    *)
(* in car.ts and multiplies by 1000; the model's delta d is that product.  *)
(* raceTime is kept in milliseconds (the code divides by 1000).            *)
(* PhysicsWorld of src/client/src/lib/physics.ts (and its older copy in   *)
(* the same file, prefix "v") and the React session of GameCanvas.tsx are  *)
(* modelled next to the car.                                               *)
(* Positions are integer points; distanceTo(p) < r is compared as          *)
(* squared distance < r * r.                                               *)
(***************************************************************************)
EXTENDS Integers, FiniteSets, Sequences, TLC

\* ---------------------------------------------------------------- constants
DISABLE_DURATION == 3000
MINOR_BUMP_DAMAGE == 5
WALL_CRASH_DAMAGE == 10
HEAD_ON_CRASH_DAMAGE == 20
CHECKPOINT_RADIUS == 10
INIT_SAFE_PERIOD == 2000
ACCELERATION_FORCE == 20000
BRAKING_FORCE == 15000
STEERING_FORCE == 100
\* NITRO_MULTIPLIER = 1.3, as a fraction
NITRO_MULTIPLIER_NUM == 13
NITRO_MULTIPLIER_DEN == 10
NITRO_DURATION == 5000
AUTO_DRIVE_DURATION == 5000
FULL_HEALTH == 100
\* physics.ts: mass of a car body, speed at which acceleration fades out
CAR_MASS == 1000
MAX_SPEED == 30
\* GameCanvas.tsx: the health the HUD gets when the car's health is falsy
HUD_DEFAULT_HEALTH == 100

\* ------------------------------------------------------------------- bounds
\* the wall clock (Date.now()) advances at most MaxTicks times by ClockStep
MaxTicks == 3
ClockStep == AUTO_DRIVE_DURATION \div 2
\* deltas handed to update, in ms
Deltas == {0, 1000, 2000, 3000}
\* impact speeds of contact events (|getImpactVelocityAlongNormal()|)
ImpactSpeeds == {-12, 2, 5, 9, 10, 14}

Severities == {"minor", "wall", "headOn"}

\* input tuples {forward, backward, left, right, nitro}
Input(f, b, l, r, n) == [forward |-> f, backward |-> b, left |-> l, right |-> r, nitro |-> n]
Inputs ==
  { Input(FALSE, FALSE, FALSE, FALSE, FALSE),
    Input(TRUE, FALSE, FALSE, FALSE, FALSE),
    Input(TRUE, FALSE, FALSE, FALSE, TRUE),
    Input(FALSE, TRUE, TRUE, FALSE, FALSE),
    Input(FALSE, FALSE, TRUE, TRUE, TRUE) }

\* the inputs of the race specification: nothing held, and forward + right + nitro
RaceInputs ==
  { Input(FALSE, FALSE, FALSE, FALSE, FALSE),
    Input(TRUE, FALSE, FALSE, TRUE, TRUE) }

Vec(x, y, z) == [x |-> x, y |-> y, z |-> z]
\* the scenario of the tests: spawn (0,1,0), start (0,0,-10), finish (0,0,10)
SpawnPosition == Vec(0, 1, 0)
startPosition == Vec(0, 0, -10)
finishPosition == Vec(0, 0, 10)
NearStart == Vec(0, 0, -5)
Origin == Vec(0, 0, 0)
Positions == {SpawnPosition, NearStart, Origin, finishPosition}

\* inputs and physics outcomes of the coarse specifications
LifeInputs == {Input(TRUE, FALSE, FALSE, FALSE, FALSE)}

LifePositions == {NearStart, finishPosition}

\* ---------------------------------------------------------------- variables
VARIABLES
  health, isDisabled, disableTimer,          \* car.ts: damage state
  acceleration, braking, steering,           \* car.ts: per-call force fields
  nitroActive, nitroTimeLeft,                \* car.ts: nitro
  crashed,                                   \* car.ts: legacy crash flag
  raceStatus, raceStartTime, raceFinishTime, \* car.ts: race bookkeeping
  isInitializing,                            \* car.ts: grace period flag
  initializationTimer,                       \* car.ts: the grace timeout is pending
  disposed,                                  \* dispose() has been called
  isAutoDriving, autoDriveStartTime,         \* car.ts: autopilot
  meshPos, bodyPos,                          \* mesh.position, body.position
  velocity, angularVelocity,                 \* body velocities: 0 = zero vector
  now,                                       \* Date.now() since construction
  forceCalls,                                \* forces/torques applied by the last call
  disabledFor,                               \* summed update deltas since disable()
  lastContact,                               \* what the collide listener did, if it ran last
  vHealth, vCrashed, vCrashTimeout,          \* part_007: damage state
  vIsInitializing,                           \* part_007: grace period flag
  vNitroActive, vNitroTimeLeft,              \* part_007: nitro
  vAcceleration, vBraking, vSteering,        \* part_007: per-call force fields
  keys,                                      \* controls.ts: key map (absent = FALSE)
  gamepad, gamepadConnected,                 \* controls.ts: gamepad (<<>> = null)
  inputState,                                \* controls.ts: forward .. nitro
  listening,                                 \* the window listeners are registered
  held,                                      \* key codes physically held down
  controlsDisposed,                          \* Controls.dispose() has been called
  pc,                                        \* animate: 0 = between frames, k = k-th call
  lastTime, deltaTime,                       \* animate: frame clock
  frameCalls,                                \* calls made by the current frame, in order
  worldBodies,                               \* physics.ts: world.bodies, in order of addBody
  bodies,                                    \* physics.ts: mesh -> body map (<<>> = no entry)
  createOutcome,                             \* how the last createCarBody call ended
  bodySpeed,                                 \* physics.ts: carBody.velocity.length(), m/s
  localForce, steeringTorque,                \* forces of the last applyCarForces call
  cleanedUp,                                 \* GameCanvas: the effect cleanup has run
  reactHealth, reactRaceStatus,              \* GameCanvas: useState values
  hudProps                                   \* props of the last <HUD/> render

carVars == <<health, isDisabled, disableTimer, acceleration, braking, steering,
             nitroActive, nitroTimeLeft, crashed, raceStatus, raceStartTime,
             raceFinishTime, isInitializing, isAutoDriving, autoDriveStartTime,
             meshPos, bodyPos, velocity, angularVelocity, forceCalls, disabledFor,
             lastContact, initializationTimer, disposed>>
disposeVars == <<initializationTimer, disposed>>
variantVars == <<vHealth, vCrashed, vCrashTimeout, vIsInitializing, vNitroActive,
                 vNitroTimeLeft, vAcceleration, vBraking, vSteering>>
controlsVars == <<keys, gamepad, gamepadConnected, inputState, listening, held,
                  controlsDisposed>>
loopVars == <<pc, lastTime, deltaTime, frameCalls>>
worldVars == <<worldBodies, bodies, createOutcome, bodySpeed, localForce, steeringTorque>>
sessionVars == <<cleanedUp, reactHealth, reactRaceStatus, hudProps>>
appVars == <<controlsVars, loopVars, worldVars, sessionVars>>
vars == <<carVars, variantVars, controlsVars, loopVars, worldVars, sessionVars, now>>

\* ------------------------------------------------------------------ helpers
Max(a, b) == IF a >= b THEN a ELSE b
Abs(a) == IF a < 0 THEN -a ELSE a

DistSq(p, q) ==
  (p.x - q.x) * (p.x - q.x) + (p.y - q.y) * (p.y - q.y) + (p.z - q.z) * (p.z - q.z)

\* mesh.position.distanceTo(w) < CHECKPOINT_RADIUS
WithinCheckpoint(p, w) == DistSq(p, w) < CHECKPOINT_RADIUS * CHECKPOINT_RADIUS

\* mutant of Damage: the damage table of the variant (2 / 8 / 15)
DamageReduced(collisionType) ==
  CASE collisionType = "minor" -> 2
    [] collisionType = "wall" -> 8
    [] collisionType = "headOn" -> 15
    [] OTHER -> 2

\* the switch of handleCollision
Damage(collisionType) ==
  CASE collisionType = "minor" -> MINOR_BUMP_DAMAGE
    [] collisionType = "wall" -> WALL_CRASH_DAMAGE
    [] collisionType = "headOn" -> HEAD_ON_CRASH_DAMAGE
    [] OTHER -> MINOR_BUMP_DAMAGE

\* mutant of DamagedHealth: the floor at 0 is missing
DamagedHealthUnclamped(h, damage) == h - damage

\* Math.max(0, health - damage)
DamagedHealth(h, damage) == Max(0, h - damage)

\* the collide listener's classification of an impact speed
\* mutant of Classify: the two thresholds are inclusive
ClassifyInclusive(v) ==
  IF Abs(v) <= 5 THEN "minor" ELSE IF Abs(v) <= 10 THEN "wall" ELSE "headOn"

Classify(v) ==
  IF Abs(v) < 5 THEN "minor" ELSE IF Abs(v) < 10 THEN "wall" ELSE "headOn"

\* mutant of ForwardForce: the boost is never applied
ForwardForceNoBoost(nitro) == ACCELERATION_FORCE

\* acceleration field for a forward input
ForwardForce(nitro) ==
  IF nitro THEN (ACCELERATION_FORCE * NITRO_MULTIPLIER_NUM) \div NITRO_MULTIPLIER_DEN
  ELSE ACCELERATION_FORCE

SteeringOf(input) ==
  IF input.right THEN STEERING_FORCE
  ELSE IF input.left THEN -STEERING_FORCE ELSE 0

\* --------------------------------------------------------------------- Init
CarInit ==
  /\ health = FULL_HEALTH /\ isDisabled = FALSE /\ disableTimer = 0
  /\ acceleration = 0 /\ braking = 0 /\ steering = 0
  /\ nitroActive = FALSE /\ nitroTimeLeft = 0
  /\ crashed = FALSE
  /\ raceStatus = [raceStarted |-> FALSE, raceFinished |-> FALSE, raceTime |-> 0]
  /\ raceStartTime = 0 /\ raceFinishTime = 0
  /\ isInitializing = TRUE /\ initializationTimer = TRUE /\ disposed = FALSE
  /\ isAutoDriving = FALSE /\ autoDriveStartTime = 0
  /\ meshPos = SpawnPosition /\ bodyPos = SpawnPosition
  /\ velocity = 0 /\ angularVelocity = 0
  /\ forceCalls = 0 /\ disabledFor = 0 /\ lastContact = "none"

VariantInit ==
  /\ vHealth = FULL_HEALTH /\ vCrashed = FALSE /\ vCrashTimeout = 0
  /\ vIsInitializing = TRUE
  /\ vNitroActive = FALSE /\ vNitroTimeLeft = 0
  /\ vAcceleration = 0 /\ vBraking = 0 /\ vSteering = 0

\* every entry of the key map the events of the model can write
MapKeys == {"w", "s", "a", "d", " ", "arrowup", "arrowdown", "arrowleft", "arrowright", ""}

NoInput == Input(FALSE, FALSE, FALSE, FALSE, FALSE)

ControlsInit ==
  /\ keys = [k \in MapKeys |-> FALSE]
  /\ gamepad = <<>> /\ gamepadConnected = FALSE
  /\ inputState = NoInput
  /\ listening = TRUE
  /\ held = {} /\ controlsDisposed = FALSE

LoopInit == pc = 0 /\ lastTime = 0 /\ deltaTime = 0 /\ frameCalls = <<>>

\* new PhysicsWorld(): no car body yet, nothing mapped, no force applied
Meshes == {1, 2}

WorldInit ==
  /\ worldBodies = <<>>
  /\ bodies = [m \in Meshes |-> <<>>]
  /\ createOutcome = "none"
  /\ bodySpeed = 0
  /\ localForce = 0 /\ steeringTorque = 0

\* GameCanvas before its first frame: useState(100), the initial race status,
\* and the HUD props of the first render (carRef.current is still null)
SessionInit ==
  /\ cleanedUp = FALSE
  /\ reactHealth = FULL_HEALTH
  /\ reactRaceStatus = [raceStarted |-> FALSE, raceFinished |-> FALSE, raceTime |-> 0]
  /\ hudProps = [health |-> FULL_HEALTH, isDisabled |-> FALSE, disableTimeRemaining |-> 0]

Init == CarInit /\ VariantInit /\ ControlsInit /\ LoopInit /\ WorldInit /\ SessionInit /\ now = 0

\* ------------------------------------------------- Car (car.ts): operations
\* startRace(): the race status and start time it leaves
StartedStatus(rs) == [rs EXCEPT !.raceStarted = TRUE]

\* mutant of RaceStartStamp: a start time already recorded is kept
RaceStartStampKept(previous, clock) == IF previous > 0 THEN previous ELSE clock

\* startRace(): raceStartTime = Date.now()
RaceStartStamp(previous, clock) == clock

startRace ==
  /\ raceStatus' = StartedStatus(raceStatus)
  /\ raceStartTime' = IF raceStatus.raceStarted THEN raceStartTime
                      ELSE RaceStartStamp(raceStartTime, now)
  /\ forceCalls' = 0 /\ lastContact' = "none"
  /\ UNCHANGED <<health, isDisabled, disableTimer, acceleration, braking, steering,
                 nitroActive, nitroTimeLeft, crashed, raceFinishTime, isInitializing,
                 isAutoDriving, autoDriveStartTime, meshPos, bodyPos, velocity,
                 angularVelocity, disabledFor>>
  /\ UNCHANGED <<variantVars, disposeVars, now>>

\* the early returns of applyControls
ControlsRejected == crashed \/ raceStatus.raceFinished

\* mutant of StartsRace: the check does not look at raceStarted
StartsRaceAgain == WithinCheckpoint(meshPos, startPosition)

\* the race-start check of applyControls
StartsRace ==
  /\ ~raceStatus.raceStarted
  /\ WithinCheckpoint(meshPos, startPosition)

\* the nitro activation condition of applyControls
NitroTriggers(input, active, timeLeft) == input.nitro /\ ~active /\ timeLeft = 0

applyControls(input) ==
  /\ IF ControlsRejected
     THEN /\ forceCalls' = 0
          /\ UNCHANGED <<raceStatus, raceStartTime, acceleration, braking, steering,
                         nitroActive, nitroTimeLeft>>
     ELSE /\ raceStatus' = IF StartsRace THEN StartedStatus(raceStatus) ELSE raceStatus
          /\ raceStartTime' = IF StartsRace THEN RaceStartStamp(raceStartTime, now)
                              ELSE raceStartTime
          /\ acceleration' = IF input.forward THEN ForwardForce(nitroActive) ELSE 0
          /\ braking' = IF input.backward THEN BRAKING_FORCE ELSE 0
          /\ steering' = SteeringOf(input)
          /\ forceCalls' = 1
          /\ IF NitroTriggers(input, nitroActive, nitroTimeLeft)
             THEN nitroActive' = TRUE /\ nitroTimeLeft' = NITRO_DURATION
             ELSE UNCHANGED <<nitroActive, nitroTimeLeft>>
  /\ UNCHANGED <<health, isDisabled, disableTimer, crashed, raceFinishTime,
                 isInitializing, isAutoDriving, autoDriveStartTime, meshPos, bodyPos,
                 velocity, angularVelocity, disabledFor>>
  /\ lastContact' = "none"
  /\ UNCHANGED <<variantVars, disposeVars, now>>

activateNitro ==
  /\ nitroActive' = TRUE
  /\ nitroTimeLeft' = NITRO_DURATION
  /\ forceCalls' = 0 /\ lastContact' = "none"
  /\ UNCHANGED <<health, isDisabled, disableTimer, acceleration, braking, steering,
                 crashed, raceStatus, raceStartTime, raceFinishTime, isInitializing,
                 isAutoDriving, autoDriveStartTime, meshPos, bodyPos, velocity,
                 angularVelocity, disabledFor>>
  /\ UNCHANGED <<variantVars, disposeVars, now>>

\* mutant of Racing: the check does not look at raceFinished
RacingEvenFinished == raceStatus.raceStarted

\* updateRaceStatus(): the race is in progress
Racing == raceStatus.raceStarted /\ ~raceStatus.raceFinished

\* updateRaceStatus(): the finish check succeeds and finishRace() runs
ReachesFinish == Racing /\ WithinCheckpoint(meshPos, finishPosition)

\* mutant of CountedDown: the countdown is not floored at 0
CountedDownNoFloor(timer, d) == timer - d

\* the disable countdown of update
CountedDown(timer, d) == Max(0, timer - d)

\* the auto-drive branch reaches progress 1
\* mutant of AutoDriveDone: the autopilot ends only after more than the duration
AutoDriveDoneLate == isAutoDriving /\ now - autoDriveStartTime > AUTO_DRIVE_DURATION

AutoDriveDone == isAutoDriving /\ now - autoDriveStartTime >= AUTO_DRIVE_DURATION

update(d) ==
  \* updateRaceStatus, then finishRace when the finish is reached,
  \* then the completion of the auto-drive branch
  /\ raceStatus' =
       [raceStarted |-> raceStatus.raceStarted,
        raceFinished |-> raceStatus.raceFinished \/ ReachesFinish \/ AutoDriveDone,
        raceTime |-> IF Racing THEN now - raceStartTime ELSE raceStatus.raceTime]
  /\ raceFinishTime' = IF ReachesFinish THEN now ELSE raceFinishTime
  /\ velocity' = IF ReachesFinish THEN 0 ELSE velocity
  /\ angularVelocity' = IF ReachesFinish THEN 0 ELSE angularVelocity
  \* disable timer and repair
  /\ IF isDisabled
     THEN IF CountedDown(disableTimer, d) = 0
          THEN health' = FULL_HEALTH /\ isDisabled' = FALSE /\ disableTimer' = 0
          ELSE disableTimer' = CountedDown(disableTimer, d)
               /\ UNCHANGED <<health, isDisabled>>
     ELSE UNCHANGED <<health, isDisabled, disableTimer>>
  /\ disabledFor' = IF isDisabled THEN disabledFor + d ELSE disabledFor
  \* auto-drive: one force and one torque per call
  /\ forceCalls' = IF isAutoDriving THEN 2 ELSE 0
  /\ lastContact' = "none"
  /\ isAutoDriving' = (isAutoDriving /\ ~AutoDriveDone)
  /\ UNCHANGED <<acceleration, braking, steering, nitroActive, nitroTimeLeft, crashed,
                 raceStartTime, isInitializing, autoDriveStartTime, meshPos, bodyPos>>
  /\ UNCHANGED <<variantVars, disposeVars, now>>

\* mutant of resetRace: the reset also repairs the car
resetRaceAndRepair ==
  /\ raceStatus' = [raceStarted |-> FALSE, raceFinished |-> FALSE, raceTime |-> 0]
  /\ health' = FULL_HEALTH /\ isDisabled' = FALSE /\ disableTimer' = 0
  /\ forceCalls' = 0 /\ lastContact' = "none"
  /\ UNCHANGED <<acceleration, braking, steering,
                 nitroActive, nitroTimeLeft, crashed, raceStartTime, raceFinishTime,
                 isInitializing, isAutoDriving, autoDriveStartTime, meshPos, bodyPos,
                 velocity, angularVelocity, disabledFor>>
  /\ UNCHANGED <<variantVars, disposeVars, now>>

resetRace ==
  /\ raceStatus' = [raceStarted |-> FALSE, raceFinished |-> FALSE, raceTime |-> 0]
  /\ forceCalls' = 0 /\ lastContact' = "none"
  /\ UNCHANGED <<health, isDisabled, disableTimer, acceleration, braking, steering,
                 nitroActive, nitroTimeLeft, crashed, raceStartTime, raceFinishTime,
                 isInitializing, isAutoDriving, autoDriveStartTime, meshPos, bodyPos,
                 velocity, angularVelocity, disabledFor>>
  /\ UNCHANGED <<variantVars, disposeVars, now>>

\* mutant of HealthGone: the car is disabled one head-on hit early
HealthGoneEarly(h) == h <= HEAD_ON_CRASH_DAMAGE

\* handleCollision: health <= 0, the condition of disable()
HealthGone(h) == h <= 0

\* mutant of CollisionIgnored: a disabled car still takes the collision
CollisionNeverIgnored == FALSE

\* handleCollision's early return
CollisionIgnored == isDisabled

\* the state handleCollision(collisionType) leaves, with disable() when health hits 0
CollisionEffect(collisionType) ==
  /\ IF CollisionIgnored
     THEN UNCHANGED <<health, isDisabled, disableTimer, velocity, disabledFor>>
     ELSE /\ health' = DamagedHealth(health, Damage(collisionType))
          /\ IF HealthGone(health')
             THEN /\ isDisabled' = TRUE
                  /\ disableTimer' = DISABLE_DURATION
                  /\ velocity' = 0
                  /\ disabledFor' = 0
             ELSE UNCHANGED <<isDisabled, disableTimer, velocity, disabledFor>>
  /\ forceCalls' = 0
  /\ UNCHANGED <<acceleration, braking, steering, nitroActive, nitroTimeLeft, crashed,
                 raceStatus, raceStartTime, raceFinishTime, isInitializing,
                 isAutoDriving, autoDriveStartTime, meshPos, bodyPos, angularVelocity>>
  /\ UNCHANGED <<variantVars, disposeVars, now>>

handleCollision(collisionType) ==
  /\ CollisionEffect(collisionType)
  /\ lastContact' = "none"

\* mutant of repair: the countdown is left as it was
repairKeepsTimer ==
  /\ health' = FULL_HEALTH
  /\ isDisabled' = FALSE
  /\ forceCalls' = 0 /\ lastContact' = "none"
  /\ UNCHANGED <<disableTimer, disabledFor>>
  /\ UNCHANGED <<acceleration, braking, steering, nitroActive, nitroTimeLeft, crashed,
                 raceStatus, raceStartTime, raceFinishTime, isInitializing,
                 isAutoDriving, autoDriveStartTime, meshPos, bodyPos, velocity,
                 angularVelocity>>
  /\ UNCHANGED <<variantVars, disposeVars, now>>

repair ==
  /\ health' = FULL_HEALTH
  /\ isDisabled' = FALSE
  /\ disableTimer' = 0
  /\ forceCalls' = 0 /\ lastContact' = "none"
  /\ UNCHANGED disabledFor
  /\ UNCHANGED <<acceleration, braking, steering, nitroActive, nitroTimeLeft, crashed,
                 raceStatus, raceStartTime, raceFinishTime, isInitializing,
                 isAutoDriving, autoDriveStartTime, meshPos, bodyPos, velocity,
                 angularVelocity>>
  /\ UNCHANGED <<variantVars, disposeVars, now>>

\* mutant of teleportTo: the teleport also clears the race
teleportAndReset(position) ==
  /\ bodyPos' = position
  /\ velocity' = 0
  /\ angularVelocity' = 0
  /\ raceStatus' = [raceStarted |-> FALSE, raceFinished |-> FALSE, raceTime |-> 0]
  /\ forceCalls' = 0 /\ lastContact' = "none"
  /\ UNCHANGED <<health, isDisabled, disableTimer, acceleration, braking, steering,
                 nitroActive, nitroTimeLeft, crashed, raceStartTime,
                 raceFinishTime, isInitializing, isAutoDriving, autoDriveStartTime,
                 meshPos, disabledFor>>
  /\ UNCHANGED <<variantVars, disposeVars, now>>

\* mutant of teleportTo: the angular velocity is not zeroed
teleportKeepsSpin(position) ==
  /\ bodyPos' = position
  /\ velocity' = 0
  /\ forceCalls' = 0 /\ lastContact' = "none"
  /\ UNCHANGED <<health, isDisabled, disableTimer, acceleration, braking, steering,
                 nitroActive, nitroTimeLeft, crashed, raceStatus, raceStartTime,
                 raceFinishTime, isInitializing, isAutoDriving, autoDriveStartTime,
                 meshPos, angularVelocity, disabledFor>>
  /\ UNCHANGED <<variantVars, disposeVars, now>>

teleportTo(position) ==
  /\ bodyPos' = position
  /\ velocity' = 0
  /\ angularVelocity' = 0
  /\ forceCalls' = 0 /\ lastContact' = "none"
  /\ UNCHANGED <<health, isDisabled, disableTimer, acceleration, braking, steering,
                 nitroActive, nitroTimeLeft, crashed, raceStatus, raceStartTime,
                 raceFinishTime, isInitializing, isAutoDriving, autoDriveStartTime,
                 meshPos, disabledFor>>
  /\ UNCHANGED <<variantVars, disposeVars, now>>

startAutoDrive ==
  /\ isAutoDriving' = TRUE
  /\ autoDriveStartTime' = now
  /\ forceCalls' = 0 /\ lastContact' = "none"
  /\ UNCHANGED <<health, isDisabled, disableTimer, acceleration, braking, steering,
                 nitroActive, nitroTimeLeft, crashed, raceStatus, raceStartTime,
                 raceFinishTime, isInitializing, meshPos, bodyPos, velocity,
                 angularVelocity, disabledFor>>
  /\ UNCHANGED <<variantVars, disposeVars, now>>

\* mutant of dispose: disposing also ends the grace period
disposeEndsGrace ==
  /\ initializationTimer' = FALSE
  /\ disposed' = TRUE
  /\ isInitializing' = FALSE
  /\ forceCalls' = 0 /\ lastContact' = "none"
  /\ UNCHANGED <<health, isDisabled, disableTimer, acceleration, braking, steering,
                 nitroActive, nitroTimeLeft, crashed, raceStatus, raceStartTime,
                 raceFinishTime, isAutoDriving, autoDriveStartTime,
                 meshPos, bodyPos, velocity, angularVelocity, disabledFor>>
  /\ UNCHANGED <<variantVars, now>>

\* ---------------------------------------------- Car (car.ts): event sources
\* dispose(): clearTimeout on the timers; the geometries and materials released
\* are not state of the model, and the body stays in the physics world
dispose ==
  /\ initializationTimer' = FALSE
  /\ disposed' = TRUE
  /\ forceCalls' = 0 /\ lastContact' = "none"
  /\ UNCHANGED <<health, isDisabled, disableTimer, acceleration, braking, steering,
                 nitroActive, nitroTimeLeft, crashed, raceStatus, raceStartTime,
                 raceFinishTime, isInitializing, isAutoDriving, autoDriveStartTime,
                 meshPos, bodyPos, velocity, angularVelocity, disabledFor>>
  /\ UNCHANGED <<variantVars, now>>

\* mutant of GraceTimer: the timeout may run before its delay has passed
GraceTimerEarly ==
  /\ initializationTimer
  /\ isInitializing' = FALSE
  /\ initializationTimer' = FALSE
  /\ forceCalls' = 0 /\ lastContact' = "none"
  /\ UNCHANGED <<health, isDisabled, disableTimer, acceleration, braking, steering,
                 nitroActive, nitroTimeLeft, crashed, raceStatus, raceStartTime,
                 raceFinishTime, isAutoDriving, autoDriveStartTime, meshPos, bodyPos,
                 velocity, angularVelocity, disabledFor>>
  /\ UNCHANGED <<variantVars, disposed, now>>

\* the setTimeout callback armed by startInitializationPeriod()
GraceTimer ==
  /\ initializationTimer
  /\ now >= INIT_SAFE_PERIOD
  /\ isInitializing' = FALSE
  /\ initializationTimer' = FALSE
  /\ forceCalls' = 0 /\ lastContact' = "none"
  /\ UNCHANGED <<health, isDisabled, disableTimer, acceleration, braking, steering,
                 nitroActive, nitroTimeLeft, crashed, raceStatus, raceStartTime,
                 raceFinishTime, isAutoDriving, autoDriveStartTime, meshPos, bodyPos,
                 velocity, angularVelocity, disabledFor>>
  /\ UNCHANGED <<variantVars, disposed, now>>

\* mutant of ContactDiscarded: the listener does not look at isInitializing
ContactDiscardedNoGrace(v, isGround, steepNormal) ==
  isGround /\ steepNormal /\ Abs(v) < 5

\* the collide listener discards the contact
ContactDiscarded(v, isGround, steepNormal) ==
  \/ isInitializing
  \/ (isGround /\ steepNormal /\ Abs(v) < 5)

\* the 'collide' listener registered in the constructor: impact speed v, whether
\* the other body is the ground, whether |contact.ni.y| > 0.8
CollideEvent(v, isGround, steepNormal) ==
  IF ContactDiscarded(v, isGround, steepNormal)
  THEN /\ forceCalls' = 0 /\ lastContact' = "discarded"
       /\ UNCHANGED <<health, isDisabled, disableTimer, acceleration, braking, steering,
                      nitroActive, nitroTimeLeft, crashed, raceStatus, raceStartTime,
                      raceFinishTime, isInitializing, isAutoDriving, autoDriveStartTime,
                      meshPos, bodyPos, velocity, angularVelocity, disabledFor>>
       /\ UNCHANGED <<variantVars, disposeVars, now>>
  ELSE CollisionEffect(Classify(v)) /\ lastContact' = "handled"

\* PhysicsWorld.update(): world.step moves the body (any pose and velocity the
\* solver may produce), then the mesh position is copied from the body
PhysicsStepTo(position, v, w) ==
  /\ bodyPos' = position
  /\ velocity' = v
  /\ angularVelocity' = w
  /\ meshPos' = bodyPos'
  /\ forceCalls' = 0 /\ lastContact' = "none"
  /\ UNCHANGED <<health, isDisabled, disableTimer, acceleration, braking, steering,
                 nitroActive, nitroTimeLeft, crashed, raceStatus, raceStartTime,
                 raceFinishTime, isInitializing, isAutoDriving, autoDriveStartTime,
                 disabledFor>>
  /\ UNCHANGED <<variantVars, disposeVars, now>>

\* a physics step with any outcome
PhysicsStep == \E p \in Positions, v \in 0..1, w \in 0..1 : PhysicsStepTo(p, v, w)

\* the wall clock advances
Tick ==
  /\ now < MaxTicks * ClockStep
  /\ now' = now + ClockStep
  /\ UNCHANGED <<carVars, variantVars>>

\* ------------------------------------------- Car variant (part_007): operations
\* the switch of the variant's handleCollision
vDamage(collisionType) ==
  CASE collisionType = "minor" -> 2
    [] collisionType = "wall" -> 8
    [] collisionType = "headOn" -> 15
    [] OTHER -> 0

\* mutant of vNitroTriggers: every nitro input re-arms the boost
vNitroTriggersAnytime(input, active, timeLeft) == input.nitro

\* the nitro activation condition of the variant's applyControls
vNitroTriggers(input, active, timeLeft) == input.nitro /\ ~active /\ timeLeft = 0

\* the state activateNitro() leaves
vNitroArmed == vNitroActive' = TRUE /\ vNitroTimeLeft' = NITRO_DURATION

vApplyControls(input) ==
  /\ IF vCrashed
     THEN UNCHANGED <<vAcceleration, vBraking, vSteering, vNitroActive, vNitroTimeLeft>>
     ELSE /\ vAcceleration' = IF input.forward
                              THEN (IF vNitroActive
                                    THEN (50000 * NITRO_MULTIPLIER_NUM) \div NITRO_MULTIPLIER_DEN
                                    ELSE 50000)
                              ELSE 0
          /\ vBraking' = IF input.backward THEN 30000 ELSE 0
          /\ vSteering' = IF input.right THEN 150 ELSE IF input.left THEN -150 ELSE 0
          /\ IF vNitroTriggers(input, vNitroActive, vNitroTimeLeft)
             THEN vNitroArmed
             ELSE UNCHANGED <<vNitroActive, vNitroTimeLeft>>
  /\ UNCHANGED <<vHealth, vCrashed, vCrashTimeout, vIsInitializing>>
  /\ UNCHANGED <<carVars, now>>

\* mutant of vNitroAfter: the time left is not zeroed when the boost ends
vNitroAfterNotZeroed(timeLeft, d) == IF timeLeft - d <= 0 THEN timeLeft ELSE timeLeft - d

\* the nitro countdown of the variant's update: nitroTimeLeft -= deltaTime * 1000
vNitroAfter(timeLeft, d) == IF timeLeft - d <= 0 THEN 0 ELSE timeLeft - d

vUpdate(d) ==
  /\ IF vNitroActive
     THEN /\ vNitroTimeLeft' = vNitroAfter(vNitroTimeLeft, d)
          /\ vNitroActive' = (vNitroTimeLeft - d > 0)
     ELSE UNCHANGED <<vNitroActive, vNitroTimeLeft>>
  /\ UNCHANGED <<vHealth, vCrashed, vCrashTimeout, vIsInitializing, vAcceleration,
                 vBraking, vSteering>>
  /\ UNCHANGED <<carVars, now>>

vActivateNitro ==
  /\ vNitroArmed
  /\ UNCHANGED <<vHealth, vCrashed, vCrashTimeout, vIsInitializing, vAcceleration,
                 vBraking, vSteering>>
  /\ UNCHANGED <<carVars, now>>

\* the variant's handleCollision: on health 0 it sets crashed and arms a 3000 ms
\* timeout; vCrashTimeout holds the time the timeout is due (0: none armed)
vCollisionEffect(collisionType) ==
  /\ IF vCrashed \/ vIsInitializing
     THEN UNCHANGED <<vHealth, vCrashed, vCrashTimeout>>
     ELSE /\ vHealth' = Max(0, vHealth - vDamage(collisionType))
          /\ IF vHealth' = 0
             THEN vCrashed' = TRUE /\ vCrashTimeout' = now + DISABLE_DURATION
             ELSE UNCHANGED <<vCrashed, vCrashTimeout>>
  /\ UNCHANGED <<vIsInitializing, vNitroActive, vNitroTimeLeft, vAcceleration, vBraking,
                 vSteering>>
  /\ UNCHANGED <<carVars, now>>

vHandleCollision(collisionType) == vCollisionEffect(collisionType)

\* the variant's 'collide' listener
vCollideEvent(v, isGround, steepNormal) ==
  IF vIsInitializing \/ (isGround /\ steepNormal /\ Abs(v) < 5)
  THEN UNCHANGED vars
  ELSE vCollisionEffect(Classify(v))

\* the crash timeout callback
vCrashTimer ==
  /\ vCrashTimeout # 0
  /\ now >= vCrashTimeout
  /\ vHealth' = FULL_HEALTH
  /\ vCrashed' = FALSE
  /\ vCrashTimeout' = 0
  /\ UNCHANGED <<vIsInitializing, vNitroActive, vNitroTimeLeft, vAcceleration, vBraking,
                 vSteering>>
  /\ UNCHANGED <<carVars, now>>

\* the variant's initialization timeout callback
vGraceTimer ==
  /\ vIsInitializing
  /\ now >= INIT_SAFE_PERIOD
  /\ vIsInitializing' = FALSE
  /\ UNCHANGED <<vHealth, vCrashed, vCrashTimeout, vNitroActive, vNitroTimeLeft,
                 vAcceleration, vBraking, vSteering>>
  /\ UNCHANGED <<carVars, now>>

\* -------------------------------------------- Controls (controls.ts): operations
\* keyboard events as the browser (or a test) dispatches them: key and code
KeyEvent(key, code) == [key |-> key, code |-> code]

KeyEvents ==
  { KeyEvent("w", "KeyW"), KeyEvent("W", "KeyW"),
    KeyEvent("ArrowUp", "ArrowUp"), KeyEvent("", "ArrowUp"),
    KeyEvent("s", "KeyS"),
    KeyEvent("ArrowLeft", "ArrowLeft"),
    KeyEvent("d", "KeyD"),
    KeyEvent(" ", "Space") }

\* event.key.toLowerCase(), on the keys of the model
ToLowerCase(key) ==
  CASE key = "W" -> "w"
    [] key = "ArrowUp" -> "arrowup"
    [] key = "ArrowDown" -> "arrowdown"
    [] key = "ArrowLeft" -> "arrowleft"
    [] key = "ArrowRight" -> "arrowright"
    [] OTHER -> key

\* the entry the special case for arrow keys writes: event.code === 'ArrowUp' ...
ArrowEntry(code) ==
  CASE code = "ArrowUp" -> "arrowup"
    [] code = "ArrowDown" -> "arrowdown"
    [] code = "ArrowLeft" -> "arrowleft"
    [] code = "ArrowRight" -> "arrowright"
    [] OTHER -> "none"

\* handleKeyDown / handleKeyUp: the key map after the handler wrote `value`
KeysAfter(map, event, value) ==
  [k \in MapKeys |-> IF k = ToLowerCase(event.key) \/ k = ArrowEntry(event.code)
                     THEN value ELSE map[k]]

\* a keydown event on window; the handler runs while its listener is registered
KeyDown(event) ==
  /\ held' = held \cup {event.code}
  /\ keys' = IF listening THEN KeysAfter(keys, event, TRUE) ELSE keys
  /\ UNCHANGED <<gamepad, gamepadConnected, inputState, listening, controlsDisposed>>

\* a keyup event on window, for a key that is down
KeyUp(event) ==
  /\ event.code \in held
  /\ held' = held \ {event.code}
  /\ keys' = IF listening THEN KeysAfter(keys, event, FALSE) ELSE keys
  /\ UNCHANGED <<gamepad, gamepadConnected, inputState, listening, controlsDisposed>>

\* gamepad snapshots: axes[0], buttons[7].value (right trigger) and
\* buttons[6].value (left trigger) in tenths, buttons[0].pressed
Pad(axis, rt, lt, b0) == [axis |-> axis, rightTrigger |-> rt, leftTrigger |-> lt, button0 |-> b0]

Pads == {Pad(0, 0, 0, FALSE), Pad(-10, 10, 0, TRUE), Pad(10, 0, 10, FALSE), Pad(1, 1, 1, FALSE)}

\* the stick's dead zone, 0.1, in tenths
DEADZONE == 1

\* the value a trigger must exceed, 0.1, in tenths
TRIGGER_THRESHOLD == 1

\* handleGamepadConnected
GamepadConnected(pad) ==
  /\ IF listening
     THEN gamepad' = <<pad>> /\ gamepadConnected' = TRUE
     ELSE UNCHANGED <<gamepad, gamepadConnected>>
  /\ UNCHANGED <<keys, inputState, listening, held, controlsDisposed>>

\* handleGamepadDisconnected
GamepadDisconnected ==
  /\ IF listening
     THEN gamepad' = <<>> /\ gamepadConnected' = FALSE
     ELSE UNCHANGED <<gamepad, gamepadConnected>>
  /\ UNCHANGED <<keys, inputState, listening, held, controlsDisposed>>

\* mutant of KeyboardInput: the arrow keys are not looked at
KeyboardInputLettersOnly(map) ==
  Input(map["w"], map["s"], map["a"], map["d"], map[" "])

\* updateKeyboardInput()
KeyboardInput(map) ==
  Input(map["w"] \/ map["arrowup"], map["s"] \/ map["arrowdown"],
        map["a"] \/ map["arrowleft"], map["d"] \/ map["arrowright"], map[" "])

\* mutant of GamepadInput: a trigger at rest leaves the keyboard's value
GamepadInputKeepsKeys(state, pad) ==
  Input(state.forward \/ pad.rightTrigger > TRIGGER_THRESHOLD,
        state.backward \/ pad.leftTrigger > TRIGGER_THRESHOLD,
        IF Abs(pad.axis) > DEADZONE THEN pad.axis < -DEADZONE ELSE state.left,
        IF Abs(pad.axis) > DEADZONE THEN pad.axis > DEADZONE ELSE state.right,
        state.nitro \/ pad.button0)

\* updateGamepadInput(), with this.gamepad set
GamepadInput(state, pad) ==
  Input(pad.rightTrigger > TRIGGER_THRESHOLD, pad.leftTrigger > TRIGGER_THRESHOLD,
        IF Abs(pad.axis) > DEADZONE THEN pad.axis < -DEADZONE ELSE state.left,
        IF Abs(pad.axis) > DEADZONE THEN pad.axis > DEADZONE ELSE state.right,
        pad.button0)

\* Controls.update()
controlsUpdate ==
  /\ inputState' = IF gamepadConnected /\ gamepad # <<>>
                   THEN GamepadInput(KeyboardInput(keys), gamepad[1])
                   ELSE KeyboardInput(keys)
  /\ UNCHANGED <<keys, gamepad, gamepadConnected, listening, held, controlsDisposed>>

\* Controls.dispose(): the four listeners are removed
controlsDispose ==
  /\ listening' = FALSE
  /\ controlsDisposed' = TRUE
  /\ UNCHANGED <<keys, gamepad, gamepadConnected, inputState, held>>

\* the keydown / keyup listeners of the copy in part_008: event.key only
vKeysAfter(map, event, value) ==
  [k \in MapKeys |-> IF k = ToLowerCase(event.key) THEN value ELSE map[k]]

vKeyDown(event) ==
  /\ held' = held \cup {event.code}
  /\ keys' = vKeysAfter(keys, event, TRUE)
  /\ UNCHANGED <<gamepad, gamepadConnected, inputState, listening, controlsDisposed>>

vKeyUp(event) ==
  /\ event.code \in held
  /\ held' = held \ {event.code}
  /\ keys' = vKeysAfter(keys, event, FALSE)
  /\ UNCHANGED <<gamepad, gamepadConnected, inputState, listening, controlsDisposed>>

\* Controls.dispose() of the copy in part_008: an empty body
vControlsDispose ==
  /\ controlsDisposed' = TRUE
  /\ UNCHANGED <<keys, gamepad, gamepadConnected, inputState, listening, held>>

\* ------------------------------------------ animate (GameCanvas.tsx): the frame
\* mutant of animateOrder: the physics step comes before car.update
animateOrderPhysicsFirst ==
  <<"controls.update", "car.applyControls", "physics.update", "car.update">>

\* the calls of one processed frame, in the order of the statements of animate
animateOrder ==
  <<"controls.update", "car.applyControls", "car.update", "physics.update">>

\* the head of animate: the delta since the previous frame; a frame with delta 0
\* (the first two frames, or two frames with one timestamp) returns at once
animateStart ==
  /\ pc = 0
  /\ deltaTime' = IF lastTime = 0 THEN 0 ELSE now - lastTime
  /\ lastTime' = now
  /\ pc' = IF deltaTime' = 0 THEN 0 ELSE 1
  /\ frameCalls' = <<>>
  /\ UNCHANGED <<carVars, variantVars, controlsVars, now>>

\* the next statement of the frame is the call `name`
CallDue(name) == pc > 0 /\ animateOrder[pc] = name

\* the frame moves past the call `name`
Called(name) ==
  /\ pc' = IF pc = Len(animateOrder) THEN 0 ELSE pc + 1
  /\ frameCalls' = Append(frameCalls, name)
  /\ UNCHANGED <<lastTime, deltaTime>>

animateControls ==
  /\ CallDue("controls.update")
  /\ controlsUpdate
  /\ Called("controls.update")
  /\ UNCHANGED <<carVars, variantVars, now>>

animateApplyControls ==
  /\ CallDue("car.applyControls")
  /\ applyControls(inputState)
  /\ Called("car.applyControls")
  /\ UNCHANGED controlsVars

animateCarUpdate ==
  /\ CallDue("car.update")
  /\ update(deltaTime)
  /\ Called("car.update")
  /\ UNCHANGED controlsVars

animatePhysics ==
  /\ CallDue("physics.update")
  /\ \E p \in LifePositions : PhysicsStepTo(p, 1, 1)
  /\ Called("physics.update")
  /\ UNCHANGED controlsVars

\* ------------------------------------- GameCanvas (GameCanvas.tsx): the session
\* JavaScript's `value || fallback` on a number: 0 is falsy
OrDefault(value, fallback) == IF value = 0 THEN fallback ELSE value

\* the props of <HUD/>: carRef.current?.health || 100,
\* carRef.current?.isDisabled || false, carRef.current?.disableTimer || 0
HudProps(h, dis, t) ==
  [health |-> OrDefault(h, HUD_DEFAULT_HEALTH),
   isDisabled |-> dis,
   disableTimeRemaining |-> OrDefault(t, 0)]

\* a render of the mounted component (React runs it after a state setter)
render ==
  /\ ~cleanedUp
  /\ hudProps' = HudProps(health, isDisabled, disableTimer)
  /\ UNCHANGED <<cleanedUp, reactHealth, reactRaceStatus>>
  /\ UNCHANGED <<carVars, variantVars, controlsVars, loopVars, worldVars, now>>

\* the frame with its state setters: setRaceStatus(car.raceStatus) follows
\* car.update, setHealth(car.health) follows physics.update
sAnimateStart == animateStart /\ UNCHANGED <<worldVars, sessionVars>>

sAnimateControls == animateControls /\ UNCHANGED <<worldVars, sessionVars>>

sAnimateApplyControls == animateApplyControls /\ UNCHANGED <<worldVars, sessionVars>>

sAnimateCarUpdate ==
  /\ animateCarUpdate
  /\ reactRaceStatus' = raceStatus'
  /\ UNCHANGED <<cleanedUp, reactHealth, hudProps, worldVars>>

sAnimatePhysics ==
  /\ animatePhysics
  /\ reactHealth' = health'
  /\ UNCHANGED <<cleanedUp, reactRaceStatus, hudProps, worldVars>>

\* a head-on contact that world.step reports while physics.update runs
SessionImpact == 14

sContact ==
  /\ CallDue("physics.update")
  /\ CollideEvent(SessionImpact, FALSE, FALSE)
  /\ UNCHANGED appVars

\* the cleanup of the effect (unmount, or terrainName changed): listeners
\* removed, controls.dispose(), car.dispose(); the frame request is not cancelled
cleanup ==
  /\ pc = 0
  /\ ~cleanedUp
  /\ controlsDispose
  /\ dispose
  /\ cleanedUp' = TRUE
  /\ UNCHANGED <<reactHealth, reactRaceStatus, hudProps, loopVars, worldVars>>

\* ------------------------------------------ PhysicsWorld (physics.ts): bodies
\* dimensions handed to createCarBody: the car of car.ts, and degenerate ones
Dimensions(w, h, l) == [width |-> w, height |-> h, length |-> l]
CarDimensions ==
  {Dimensions(2, 1, 4), Dimensions(0, 1, 4), Dimensions(2, -1, 4), Dimensions(2, 1, 0)}
MaxBodies == 2

Degenerate(d) == d.width <= 0 \/ d.height <= 0 \/ d.length <= 0

\* the body createCarBody builds: a box of the given dimensions, mass 1000
CarBody(d) == [box |-> d, mass |-> CAR_MASS]

\* createCarBody(dimensions, position, mesh): no statement looks at the sign of
\* the dimensions; the body is added to the world and mapped to the mesh
createCarBody(d, mesh) ==
  /\ Len(worldBodies) < MaxBodies
  /\ worldBodies' = Append(worldBodies, CarBody(d))
  /\ bodies' = [bodies EXCEPT ![mesh] = <<CarBody(d)>>]
  /\ createOutcome' = "returned"
  /\ UNCHANGED <<bodySpeed, localForce, steeringTorque>>

\* world.step(): the solver changes the speed of the car body
BodySpeeds == {0, 15, 30, 36}

WorldStep(v) ==
  /\ bodySpeed' = v
  /\ localForce' = 0 /\ steeringTorque' = 0
  /\ UNCHANGED <<worldBodies, bodies, createOutcome>>

\* ------------------------------------------ PhysicsWorld (physics.ts): forces
\* Forces are kept in units of 1/MAX_SPEED N and torques in units of
\* 1/(5 * MAX_SPEED) N m, so that the speed factors stay integers.
\* speedFactor = Math.max(0, 1 - currentVelocity / maxSpeed), times MAX_SPEED
SpeedFactor(v) == Max(0, MAX_SPEED - v)

\* finalForce of applyCarForces
FinalForce(a, b, v) ==
  IF a > 0 THEN a * SpeedFactor(v)
  ELSE IF b > 0 THEN -(b * (v + MAX_SPEED \div 5))
  ELSE 0

\* steeringFactor = Math.max(0.2, 1 - currentVelocity / maxSpeed * 0.8), times 5 * MAX_SPEED
SteeringFactor(v) == Max(MAX_SPEED, 5 * MAX_SPEED - 4 * v)

\* applyCarForces(carBody, {acceleration, braking, steering}); the constant
\* artificial gravity and the upright stabilisation do not depend on the inputs
applyCarForces(a, b, st) ==
  /\ localForce' = FinalForce(a, b, bodySpeed)
  /\ steeringTorque' = st * SteeringFactor(bodySpeed)
  /\ UNCHANGED <<worldBodies, bodies, createOutcome, bodySpeed>>

\* applyCarForces of the older copy (physics.ts 532-566): acceleration - braking
\* along local z and the steering as torque, whatever the speed
vApplyCarForces(a, b, st) ==
  /\ localForce' = (a - b) * MAX_SPEED
  /\ steeringTorque' = st * 5 * MAX_SPEED
  /\ UNCHANGED <<worldBodies, bodies, createOutcome, bodySpeed>>

\* the force fields Car.applyControls hands over
Accelerations == {0, ACCELERATION_FORCE, ForwardForce(TRUE)}
Brakings == {0, BRAKING_FORCE}
Steerings == {0, STEERING_FORCE, -STEERING_FORCE}

\* ----------------------------------------------------------- specifications
\* PhysicsWorld on its own: bodies created, the world stepped, forces applied
restOfControls == <<carVars, variantVars, loopVars, worldVars, sessionVars, now>>
restOfWorld == <<carVars, variantVars, controlsVars, loopVars, sessionVars, now>>

NextPhysics ==
  \/ \E d \in CarDimensions, m \in Meshes : createCarBody(d, m) /\ UNCHANGED restOfWorld
  \/ \E v \in BodySpeeds : WorldStep(v) /\ UNCHANGED restOfWorld
  \/ \E a \in Accelerations, b \in Brakings, st \in Steerings :
        applyCarForces(a, b, st) /\ UNCHANGED restOfWorld
  \/ \E a \in Accelerations, b \in Brakings, st \in Steerings :
        vApplyCarForces(a, b, st) /\ UNCHANGED restOfWorld

SpecPhysics == Init /\ [][NextPhysics]_vars

\* One GameCanvas session: frames, contacts inside the physics step, renders,
\* the grace timeout, the clock, and the cleanup of the effect
SessionKeyEvents == {KeyEvent("w", "KeyW")}

NextSession ==
  \/ sAnimateStart
  \/ sAnimateControls
  \/ sAnimateApplyControls
  \/ sAnimateCarUpdate
  \/ sAnimatePhysics
  \/ sContact
  \/ render
  \/ cleanup
  \/ \E e \in SessionKeyEvents : pc = 0 /\ KeyDown(e) /\ UNCHANGED restOfControls
  \/ pc = 0 /\ GraceTimer /\ UNCHANGED appVars
  \/ pc = 0 /\ Tick /\ UNCHANGED appVars

SpecSession == Init /\ [][NextSession]_vars

\* Car of car.ts standing at its spawn pose: collisions, controls and timers
Next ==
  \/ \E i \in Inputs : applyControls(i) /\ UNCHANGED appVars
  \/ \E d \in Deltas : update(d) /\ UNCHANGED appVars
  \/ resetRace /\ UNCHANGED appVars
  \/ activateNitro /\ UNCHANGED appVars
  \/ \E t \in Severities : handleCollision(t) /\ UNCHANGED appVars
  \/ repair /\ UNCHANGED appVars
  \/ \E p \in Positions : teleportTo(p) /\ UNCHANGED appVars
  \/ GraceTimer /\ UNCHANGED appVars
  \/ \E v \in ImpactSpeeds, g \in BOOLEAN, s \in BOOLEAN : CollideEvent(v, g, s) /\ UNCHANGED appVars
  \/ Tick /\ UNCHANGED appVars

Spec == Init /\ [][Next]_vars

\* Car of car.ts driving a race without collisions
NextRace ==
  \/ \E i \in RaceInputs : applyControls(i) /\ UNCHANGED appVars
  \/ \E d \in Deltas : update(d) /\ UNCHANGED appVars
  \/ startRace /\ UNCHANGED appVars
  \/ resetRace /\ UNCHANGED appVars
  \/ \E p \in Positions : teleportTo(p) /\ UNCHANGED appVars
  \/ startAutoDrive /\ UNCHANGED appVars
  \/ PhysicsStep /\ UNCHANGED appVars
  \/ Tick /\ UNCHANGED appVars

SpecRace == Init /\ [][NextRace]_vars

\* the Car variant of part_007
NextVariant ==
  \/ \E i \in Inputs : vApplyControls(i) /\ UNCHANGED appVars
  \/ \E d \in Deltas : vUpdate(d) /\ UNCHANGED appVars
  \/ vActivateNitro /\ UNCHANGED appVars
  \/ \E t \in Severities : vHandleCollision(t) /\ UNCHANGED appVars
  \/ \E v \in ImpactSpeeds, g \in BOOLEAN, s \in BOOLEAN : vCollideEvent(v, g, s) /\ UNCHANGED appVars
  \/ vCrashTimer /\ UNCHANGED appVars
  \/ vGraceTimer /\ UNCHANGED appVars
  \/ Tick /\ UNCHANGED appVars

SpecVariant == Init /\ [][NextVariant]_vars

\* The frame loop of GameCanvas driving Controls, the car and the physics
\* world; events and the clock come between frames (one thread).
LoopKeyEvents == {KeyEvent("w", "KeyW"), KeyEvent(" ", "Space")}

NextLoop ==
  \/ animateStart /\ UNCHANGED <<worldVars, sessionVars>>
  \/ animateControls /\ UNCHANGED <<worldVars, sessionVars>>
  \/ animateApplyControls /\ UNCHANGED <<worldVars, sessionVars>>
  \/ animateCarUpdate /\ UNCHANGED <<worldVars, sessionVars>>
  \/ animatePhysics /\ UNCHANGED <<worldVars, sessionVars>>
  \/ \E e \in LoopKeyEvents : pc = 0 /\ KeyDown(e) /\ UNCHANGED restOfControls
  \/ \E e \in LoopKeyEvents : pc = 0 /\ KeyUp(e) /\ UNCHANGED restOfControls
  \/ pc = 0 /\ Tick /\ UNCHANGED appVars

SpecLoop == Init /\ [][NextLoop]_vars

\* Controls of controls.ts under keyboard and gamepad events
NextControls ==
  \/ \E e \in KeyEvents : KeyDown(e) /\ UNCHANGED restOfControls
  \/ \E e \in KeyEvents : KeyUp(e) /\ UNCHANGED restOfControls
  \/ \E pad \in Pads : GamepadConnected(pad) /\ UNCHANGED restOfControls
  \/ GamepadDisconnected /\ UNCHANGED restOfControls
  \/ controlsUpdate /\ UNCHANGED restOfControls

SpecControls == Init /\ [][NextControls]_vars

\* Controls of part_008 (letter keys, space and one gamepad) around its dispose()
VariantKeyEvents == {KeyEvent("w", "KeyW"), KeyEvent("W", "KeyW"), KeyEvent("a", "KeyA"),
                     KeyEvent(" ", "Space")}

NextControlsVariant ==
  \/ \E e \in VariantKeyEvents : vKeyDown(e) /\ UNCHANGED restOfControls
  \/ \E e \in VariantKeyEvents : vKeyUp(e) /\ UNCHANGED restOfControls
  \/ \E pad \in Pads : GamepadConnected(pad) /\ UNCHANGED restOfControls
  \/ GamepadDisconnected /\ UNCHANGED restOfControls
  \/ controlsUpdate /\ UNCHANGED restOfControls
  \/ vControlsDispose /\ UNCHANGED restOfControls

SpecControlsVariant == Init /\ [][NextControlsVariant]_vars

\* The car of car.ts around dispose(): contacts, physics steps and timers that
\* the environment still delivers afterwards.
DisposeSpeeds == ImpactSpeeds

NextDispose ==
  \/ \E v \in DisposeSpeeds, g \in BOOLEAN, s \in BOOLEAN : CollideEvent(v, g, s) /\ UNCHANGED appVars
  \/ \E d \in Deltas : update(d) /\ UNCHANGED appVars
  \/ \E p \in LifePositions : PhysicsStepTo(p, 1, 1) /\ UNCHANGED appVars
  \/ GraceTimer /\ UNCHANGED appVars
  \/ dispose /\ UNCHANGED appVars
  \/ Tick /\ UNCHANGED appVars

SpecDispose == Init /\ [][NextDispose]_vars

\* the same with the scheduling the runtime gives: time passes, and a timeout
\* that is due and not cleared gets its turn on the event loop
SpecDisposeFair ==
  /\ SpecDispose
  /\ WF_vars(Tick /\ UNCHANGED appVars)
  /\ WF_vars(GraceTimer /\ UNCHANGED appVars)

\* The car of car.ts through a whole race with damage: one control input, one
\* severity, the update that ends a disable in one call, and a physics step
\* that puts the moving car near the start or on the finish.
NextLife ==
  \/ \E i \in LifeInputs : applyControls(i) /\ UNCHANGED appVars
  \/ update(DISABLE_DURATION) /\ UNCHANGED appVars
  \/ handleCollision("headOn") /\ UNCHANGED appVars
  \/ activateNitro /\ UNCHANGED appVars
  \/ resetRace /\ UNCHANGED appVars
  \/ \E p \in LifePositions : teleportTo(p) /\ UNCHANGED appVars
  \/ startAutoDrive /\ UNCHANGED appVars
  \/ \E p \in LifePositions : PhysicsStepTo(p, 1, 1) /\ UNCHANGED appVars
  \/ Tick /\ UNCHANGED appVars

SpecLife == Init /\ [][NextLife]_vars

\* -------------------------------------------------------------------- claims

\* C1: in every state reached by handleCollision, update, repair, applyControls,
\* resetRace, teleportTo and activateNitro, health is between 0 and 100.
C1_HealthInRange == 0 <= health /\ health <= FULL_HEALTH

\* a collision drove health to the floor and disabled the car
C1_Witness == health = 0 /\ isDisabled /\ disableTimer = DISABLE_DURATION

\* C2 as stated: while the car is initializing no collision, by event or by a
\* direct handleCollision call, changes health or disables the car.
C2_NoDamageWhileInitializing == isInitializing => (health = FULL_HEALTH /\ ~isDisabled)

\* C2 as amended: while the car is initializing a contact delivered through the
\* 'collide' listener changes nothing of the damage state, and a direct
\* handleCollision call on a car that is not disabled applies its damage as usual.
C2_GraceCoversListenerOnly ==
  [][ /\ \A v \in ImpactSpeeds, g \in BOOLEAN, s \in BOOLEAN :
           (isInitializing /\ CollideEvent(v, g, s))
             => (UNCHANGED <<health, isDisabled, disableTimer>> /\ lastContact' = "discarded")
      /\ \A t \in Severities :
           (isInitializing /\ ~isDisabled /\ handleCollision(t))
             => health' = Max(0, health - Damage(t)) ]_vars

\* a contact was discarded during the grace period, after a direct call had
\* already taken health off the initializing car
C2_Witness == isInitializing /\ lastContact = "discarded" /\ health < FULL_HEALTH

\* C3: a disabled car has health 0 and DISABLE_DURATION minus the summed update
\* deltas left while that sum is below DISABLE_DURATION; the update that brings the
\* sum to DISABLE_DURATION or more leaves it not disabled, with no time left and
\* health 100.
C3_DisableCountdown ==
  /\ [](isDisabled => /\ health = 0
                      /\ disabledFor < DISABLE_DURATION
                      /\ disableTimer = DISABLE_DURATION - disabledFor)
  /\ [][ \A d \in Deltas :
           (isDisabled /\ update(d)) =>
             IF disabledFor + d >= DISABLE_DURATION
             THEN ~isDisabled' /\ disableTimer' = 0 /\ health' = FULL_HEALTH
             ELSE isDisabled' /\ health' = 0
                  /\ disableTimer' = DISABLE_DURATION - (disabledFor + d) ]_vars

\* the countdown ran out in update, after summed deltas of exactly DISABLE_DURATION
C3_Witness ==
  ~isDisabled /\ health = FULL_HEALTH /\ disableTimer = 0 /\ disabledFor = DISABLE_DURATION

\* C4 as stated: applyControls on a disabled car or after the finish applies no
\* force, starts no race, activates no nitro and leaves the force fields alone.
C4_ControlsNoOpWhenDisabledOrFinished ==
  [][ \A i \in Inputs :
        ((isDisabled \/ raceStatus.raceFinished) /\ applyControls(i))
          => /\ forceCalls' = 0
             /\ UNCHANGED <<raceStatus, raceStartTime, nitroActive, nitroTimeLeft,
                            acceleration, braking, steering>> ]_vars

\* C5 as stated: a finished race is a started race.
C5_FinishedImpliesStarted == raceStatus.raceFinished => raceStatus.raceStarted

\* C6 as stated: on the freshly spawned car, teleportTo((0,0,-5)) and one
\* applyControls call start the race; while racing, teleportTo((0,0,10)) and one
\* update call finish it; no physics step in between (the mesh has not moved).
C6_EndToEnd ==
  [][ /\ \A i \in RaceInputs :
           (/\ bodyPos = NearStart /\ meshPos = SpawnPosition
            /\ ~raceStatus.raceStarted /\ ~raceStatus.raceFinished
            /\ applyControls(i))
             => raceStatus'.raceStarted
      /\ \A d \in Deltas :
           (/\ bodyPos = finishPosition /\ meshPos = SpawnPosition
            /\ Racing
            /\ update(d))
             => raceStatus'.raceFinished ]_vars

\* C7: applyControls on a car that is not started, disabled or finished and whose
\* position is within the checkpoint radius of the start sets raceStarted and
\* records the current time as the start time, for every input; applyControls and
\* startRace on a started race leave the start time alone.
C7_RaceStartsOnceAtStart ==
  [][ /\ \A i \in RaceInputs :
           (/\ ~raceStatus.raceStarted /\ ~raceStatus.raceFinished /\ ~isDisabled
            /\ WithinCheckpoint(meshPos, startPosition)
            /\ applyControls(i))
             => (raceStatus'.raceStarted /\ raceStartTime' = now)
      /\ \A i \in RaceInputs :
           (raceStatus.raceStarted /\ applyControls(i)) => raceStartTime' = raceStartTime
      /\ (raceStatus.raceStarted /\ startRace) => raceStartTime' = raceStartTime ]_vars

\* a race started at a recorded time, and applyControls was accepted later
C7_Witness ==
  /\ raceStatus.raceStarted /\ ~raceStatus.raceFinished
  /\ raceStartTime > 0 /\ now > raceStartTime
  /\ forceCalls = 1
  /\ WithinCheckpoint(meshPos, startPosition)

\* C8: update while racing within the checkpoint radius of the finish sets
\* raceFinished, sets raceTime to finish time minus start time and zeroes both
\* velocities; update on a finished race leaves raceTime alone.
C8_FinishFreezesRaceTime ==
  [][ /\ \A d \in Deltas :
           (Racing /\ WithinCheckpoint(meshPos, finishPosition) /\ update(d))
             => /\ raceStatus'.raceFinished
                /\ raceFinishTime' = now
                /\ raceStatus'.raceTime = raceFinishTime' - raceStartTime
                /\ velocity' = 0 /\ angularVelocity' = 0
      /\ \A d \in Deltas :
           (raceStatus.raceFinished /\ update(d))
             => raceStatus'.raceTime = raceStatus.raceTime ]_vars

\* a race finished at the finish line, and update ran again (with the autopilot
\* on) at a later time with raceTime still finish minus start
C8_Witness ==
  /\ raceStatus.raceStarted /\ raceStatus.raceFinished
  /\ raceStartTime < raceFinishTime /\ raceFinishTime < now
  /\ raceStatus.raceTime = raceFinishTime - raceStartTime
  /\ forceCalls = 2

\* C9 as stated: update(d) on a car with nitro active takes 1000 * d off
\* nitroTimeLeft (not below 0) and clears nitroActive when it reaches 0.
C9_NitroCountsDown ==
  [][ \A d \in Deltas :
        (nitroActive /\ update(d))
          => /\ nitroTimeLeft' = Max(0, nitroTimeLeft - d)
             /\ nitroActive' = (nitroTimeLeft' > 0) ]_vars

\* C10 as stated: activateNitro in the middle of a boost leaves the countdown and
\* the flag alone, and applyControls ignores a nitro input unless nitro is
\* inactive with no time left.
C10_ActivateNitroIdempotent ==
  [][ /\ (vNitroActive /\ 0 < vNitroTimeLeft /\ vNitroTimeLeft < NITRO_DURATION
          /\ vActivateNitro)
             => UNCHANGED <<vNitroActive, vNitroTimeLeft>>
      /\ \A i \in Inputs :
           (~(~vNitroActive /\ vNitroTimeLeft = 0) /\ vApplyControls(i))
             => UNCHANGED <<vNitroActive, vNitroTimeLeft>> ]_vars

\* C10 as amended: activateNitro in the middle of a boost keeps nitro active and
\* re-arms the countdown to NITRO_DURATION; applyControls ignores a nitro input
\* unless nitro is inactive with no time left.
C10_OnlyControlsGuardNitro ==
  [][ /\ (vNitroActive /\ 0 < vNitroTimeLeft /\ vNitroTimeLeft < NITRO_DURATION
          /\ vActivateNitro)
             => (vNitroActive' /\ vNitroTimeLeft' = NITRO_DURATION)
      /\ \A i \in Inputs :
           (~(~vNitroActive /\ vNitroTimeLeft = 0) /\ vApplyControls(i))
             => UNCHANGED <<vNitroActive, vNitroTimeLeft>> ]_vars

\* the middle of a boost, with applyControls having applied the boosted force
C10_Witness ==
  /\ vNitroActive /\ 0 < vNitroTimeLeft /\ vNitroTimeLeft < NITRO_DURATION
  /\ vAcceleration > 50000

\* C11: handleCollision on a car that is not disabled takes 5 ('minor'), 10 ('wall')
\* or 20 ('headOn') off health, not below 0, so that successive calls add up
\* (100 -> 95 -> 85 -> 65 on a fresh car).
C11_DamageTable ==
  [][ /\ (~isDisabled /\ handleCollision("minor")) => health' = Max(0, health - 5)
      /\ (~isDisabled /\ handleCollision("wall")) => health' = Max(0, health - 10)
      /\ (~isDisabled /\ handleCollision("headOn")) => health' = Max(0, health - 20) ]_vars

\* the freshly built car after the three calls of the test
C11_Witness == health = 65 /\ ~isDisabled /\ isInitializing /\ now = 0

\* C12: outside the grace period, the k-th of five consecutive head-on hits on a
\* car at full health (health 100 - 20 * (k - 1) before it) leaves health
\* 100 - 20 * k and disables the car exactly when k = 5.
C12_FifthHeadOnDisables ==
  [][ \A k \in 1..5 :
        (/\ ~isInitializing /\ ~isDisabled
         /\ health = FULL_HEALTH - 20 * (k - 1)
         /\ handleCollision("headOn"))
          => /\ health' = FULL_HEALTH - 20 * k
             /\ isDisabled' = (k = 5)
             /\ (k = 5 => disableTimer' = DISABLE_DURATION) ]_vars

\* the fifth hit landed after the grace period
C12_Witness ==
  /\ ~isInitializing /\ health = 0 /\ isDisabled /\ disableTimer = DISABLE_DURATION
  /\ disabledFor = 0 /\ lastContact = "none"

\* C13: handleCollision on a disabled car, called directly or by the collide
\* listener, leaves health at 0, the car disabled and the countdown as it was.
C13_DisabledTakesNoDamage ==
  [][ /\ \A t \in Severities :
           (isDisabled /\ handleCollision(t))
             => (health' = 0 /\ isDisabled' /\ disableTimer' = disableTimer)
      /\ \A v \in ImpactSpeeds, g \in BOOLEAN, s \in BOOLEAN :
           (isDisabled /\ CollideEvent(v, g, s))
             => (health' = 0 /\ isDisabled' /\ disableTimer' = disableTimer) ]_vars

\* the listener handed a collision to handleCollision in the middle of the countdown
C13_Witness ==
  /\ isDisabled /\ health = 0 /\ lastContact = "handled"
  /\ 0 < disableTimer /\ disableTimer < DISABLE_DURATION

\* C14 as stated: a car whose health a collision drove to 0 has crashed set.
C14_CrashedAtZeroHealth == (health = 0) => crashed

\* C15: the disable countdown is never negative and is above zero exactly while
\* the car is disabled.
C15_TimerIffDisabled == disableTimer >= 0 /\ (isDisabled <=> disableTimer > 0)

\* the countdown has run two thirds of its way
C15_Witness == isDisabled /\ disableTimer = 1000 /\ disabledFor = 2000

\* C16: nitroTimeLeft is above zero exactly while nitroActive is true.
C16_NitroTimeIffActive ==
  /\ (vNitroTimeLeft > 0) <=> vNitroActive
  /\ vNitroTimeLeft >= 0 /\ vNitroTimeLeft <= NITRO_DURATION

\* a boost that applyControls used at full strength has run out in update
C16_Witness == ~vNitroActive /\ vNitroTimeLeft = 0 /\ vAcceleration > 50000

C18_ResetRaceFrame ==
  [][ resetRace
        => /\ raceStatus' = [raceStarted |-> FALSE, raceFinished |-> FALSE, raceTime |-> 0]
           /\ UNCHANGED <<health, isDisabled, disableTimer>>
           /\ UNCHANGED <<nitroActive, nitroTimeLeft>>
           /\ UNCHANGED <<bodyPos, velocity, angularVelocity>> ]_vars

\* a race that was finished is cleared while the car is disabled, boosted and moving
C18_Witness ==
  /\ ~raceStatus.raceStarted /\ ~raceStatus.raceFinished /\ raceStatus.raceTime = 0
  /\ raceFinishTime > 0
  /\ isDisabled /\ disableTimer = DISABLE_DURATION /\ nitroActive
  /\ bodyPos = finishPosition /\ angularVelocity = 1

\* C19: applyControls near the start after a finished race was reset starts a new
\* race stamped with the time of the call; updates of the new race report the
\* time since that stamp, and raceTime is 0 until the race starts again.
C19_RestartMeasuresFromNewStart ==
  /\ [](~raceStatus.raceStarted => raceStatus.raceTime = 0)
  /\ [][ /\ \A i \in RaceInputs :
              (/\ ~raceStatus.raceStarted /\ ~raceStatus.raceFinished
               /\ raceFinishTime > 0
               /\ WithinCheckpoint(meshPos, startPosition)
               /\ applyControls(i))
                => /\ raceStatus'.raceStarted /\ ~raceStatus'.raceFinished
                   /\ raceStartTime' = now
                   /\ raceStatus'.raceTime = 0
         /\ \A d \in Deltas :
              (raceStatus.raceStarted /\ ~raceStatus.raceFinished /\ update(d))
                => raceStatus'.raceTime = now - raceStartTime ]_vars

\* the second race started after the first one finished and has run one clock step
C19_Witness ==
  /\ raceStatus.raceStarted /\ ~raceStatus.raceFinished
  /\ raceFinishTime > 0 /\ raceStartTime > raceFinishTime
  /\ raceStatus.raceTime = ClockStep /\ now = raceStartTime + ClockStep

\* C20: teleportTo(p) leaves the body at exactly p with linear and angular
\* velocity zero, for every position p.
C20_TeleportRoundTrip ==
  [][ \A p \in Positions :
        teleportTo(p) => (bodyPos' = p /\ velocity' = 0 /\ angularVelocity' = 0) ]_vars

\* the body was put on the finish while the mesh still shows the place near the start
C20_Witness ==
  /\ bodyPos = finishPosition /\ meshPos = NearStart
  /\ velocity = 0 /\ angularVelocity = 0

\* C21: teleportTo leaves health, the disabled flag and its countdown, the nitro
\* state and raceStatus as they were.
C21_TeleportFrame ==
  [][ \A p \in LifePositions :
        teleportTo(p)
          => /\ UNCHANGED <<health, isDisabled, disableTimer>>
             /\ UNCHANGED <<nitroActive, nitroTimeLeft>>
             /\ raceStatus' = raceStatus ]_vars

\* a disabled, boosted car in a running race was taken from the finish back to the start
C21_Witness ==
  /\ bodyPos = NearStart /\ meshPos = finishPosition
  /\ velocity = 0 /\ angularVelocity = 0
  /\ isDisabled /\ nitroActive
  /\ raceStatus.raceStarted /\ ~raceStatus.raceFinished /\ raceStatus.raceTime > 0

\* C22 as stated: once dispose() has run, a physics step does not move the body,
\* a collide event changes neither health nor the disabled flag, and the grace
\* timer does not fire.
C22_DisposedCarIsInert ==
  [][ disposed
        => /\ (\E p \in LifePositions : PhysicsStepTo(p, 1, 1)) => bodyPos' = bodyPos
           /\ (\E v \in DisposeSpeeds, g \in BOOLEAN, s \in BOOLEAN : CollideEvent(v, g, s))
                => UNCHANGED <<health, isDisabled>>
           /\ ~GraceTimer ]_vars

\* the flag a set of held key codes should give
HeldAny(codes) == held \cap codes # {}

\* C23: Controls starts with the five flags false, only update() changes them,
\* and with no gamepad connected update() makes each flag true exactly when one
\* of its keys is held (W / ArrowUp, S / ArrowDown, A / ArrowLeft, D / ArrowRight,
\* Space), so the flag of a released key is cleared.
C23_FlagsFollowHeldKeys ==
  /\ inputState = NoInput
  /\ [][ /\ (~gamepadConnected /\ controlsUpdate)
              => inputState' = Input(HeldAny({"KeyW", "ArrowUp"}),
                                     HeldAny({"KeyS", "ArrowDown"}),
                                     HeldAny({"KeyA", "ArrowLeft"}),
                                     HeldAny({"KeyD", "ArrowRight"}),
                                     HeldAny({"Space"}))
         /\ ~controlsUpdate => inputState' = inputState ]_vars

\* W was released while ArrowUp and Space stay down: forward and nitro are still set
C23_Witness ==
  /\ held = {"ArrowUp", "Space"} /\ ~keys["w"] /\ keys["arrowup"] /\ keys[""]
  /\ ~gamepadConnected
  /\ inputState = Input(TRUE, FALSE, FALSE, FALSE, TRUE)

\* C24 as stated: after dispose() no event changes the key map or the gamepad fields.
C24_DisposedControlsIgnoreEvents ==
  [][ controlsDisposed => UNCHANGED <<keys, gamepad, gamepadConnected>> ]_vars

\* the calls of the current frame without the one to Controls
CarCalls == SelectSeq(frameCalls, LAMBDA c : c # "controls.update")

\* a processed frame has run to its end
FrameDone == pc = 0 /\ frameCalls # <<>>

C27_ContactClassification ==
  [][ \A v \in ImpactSpeeds, g \in BOOLEAN, s \in BOOLEAN :
        (~isDisabled /\ CollideEvent(v, g, s))
          => IF isInitializing \/ (g /\ s /\ Abs(v) < 5)
             THEN health' = health /\ ~isDisabled' /\ lastContact' = "discarded"
             ELSE /\ lastContact' = "handled"
                  /\ health' = Max(0, health - (IF Abs(v) < 5 THEN 5
                                                ELSE IF Abs(v) < 10 THEN 10 ELSE 20)) ]_vars

\* after the grace period the listener handled one contact at speed 5 to 9
C27_Witness ==
  ~isInitializing /\ lastContact = "handled" /\ health = FULL_HEALTH - 10

\* C28: the car is initializing at every time before 2000 ms; unless it is
\* disposed it eventually stops initializing by the timeout alone; the flag
\* changes only through the timeout and is never set again.
C28_GraceEndsOnce ==
  /\ [](now < INIT_SAFE_PERIOD => isInitializing)
  /\ <>(disposed \/ ~isInitializing)
  /\ [][ /\ ~isInitializing => ~isInitializing'
         /\ (isInitializing' # isInitializing) => GraceTimer ]_vars

\* the grace period is over and the car, not disposed, has taken damage since
C28_Witness ==
  /\ ~isInitializing /\ ~initializationTimer /\ ~disposed
  /\ now >= INIT_SAFE_PERIOD /\ health < FULL_HEALTH

\* C29: an update made before 5000 ms have passed since startAutoDrive keeps the
\* autopilot on and finishes the race only if the race was finished already or
\* the running race reaches the finish checkpoint; an update made once 5000 ms
\* have passed finishes the race and switches the autopilot off.
C29_AutoDriveFinishesAtDuration ==
  [][ \A d \in Deltas :
        (isAutoDriving /\ update(d))
          => IF now - autoDriveStartTime >= 5000
             THEN raceStatus'.raceFinished /\ ~isAutoDriving'
             ELSE /\ isAutoDriving'
                  /\ raceStatus'.raceFinished
                       => \/ raceStatus.raceFinished
                          \/ /\ raceStatus.raceStarted
                             /\ WithinCheckpoint(meshPos, finishPosition) ]_vars

\* the update that came exactly 5000 ms after startAutoDrive ended the autopilot
C29_Witness ==
  /\ raceStatus.raceFinished /\ ~isAutoDriving /\ forceCalls = 2
  /\ now = autoDriveStartTime + AUTO_DRIVE_DURATION /\ autoDriveStartTime > 0

\* C30: an accepted applyControls call with forward set stores 26000 (1.3 x 20000)
\* as acceleration when nitro was active at the start of the call and 20000
\* otherwise, so the call that activates nitro still stores 20000.
C30_BoostFromNextCall ==
  [][ \A i \in Inputs :
        (i.forward /\ ~crashed /\ ~raceStatus.raceFinished /\ applyControls(i))
          => /\ acceleration' = IF nitroActive THEN 26000 ELSE 20000
             /\ (~nitroActive /\ nitroActive') => acceleration' = 20000 ]_vars

\* the call that switched nitro on applied the unboosted force
C30_Witness == nitroActive /\ acceleration = 20000 /\ forceCalls = 1

\* C31: createCarBody with a zero or negative width, height or length throws
\* and leaves the world's bodies and the mesh-to-body map as they were.
C31_DegenerateDimensionsRejected ==
  [][ \A d \in CarDimensions, m \in Meshes :
        (Degenerate(d) /\ createCarBody(d, m))
          => (createOutcome' = "threw" /\ worldBodies' = worldBodies /\ bodies' = bodies) ]_vars

\* C32: with acceleration > 0, applyCarForces (either copy) applies along local
\* z the force acceleration x max(0, 1 - speed / maxSpeed); localForce is kept
\* in units of 1/MAX_SPEED N.
C32_ForwardForceFadesWithSpeed ==
  [][ \A a \in Accelerations, b \in Brakings, st \in Steerings :
        (a > 0 /\ (applyCarForces(a, b, st) \/ vApplyCarForces(a, b, st)))
          => /\ localForce' = a * Max(0, MAX_SPEED - bodySpeed)
             /\ localForce' >= 0
             /\ (bodySpeed >= MAX_SPEED => localForce' = 0)
             /\ (bodySpeed = 0 => localForce' = a * MAX_SPEED) ]_vars

\* the same statement for applyCarForces of the current copy alone
C32_CurrentCopyFades ==
  [][ \A a \in Accelerations, b \in Brakings, st \in Steerings :
        (a > 0 /\ applyCarForces(a, b, st))
          => /\ localForce' = a * Max(0, MAX_SPEED - bodySpeed)
             /\ localForce' >= 0
             /\ (bodySpeed >= MAX_SPEED => localForce' = 0) ]_vars

\* C33: in every reachable state of the Car, isDisabled holds exactly when
\* health is 0; health reaches 0 only in a collision handled by handleCollision,
\* which disables the car in the same call, and the car leaves the disabled
\* state only through repair (called directly or by update), with health 100.
C33_DisabledIffNoHealth ==
  /\ [](isDisabled <=> health = 0)
  /\ [][ /\ (health # 0 /\ health' = 0)
              => /\ isDisabled' /\ disableTimer' = DISABLE_DURATION
                 /\ \/ \E t \in Severities : handleCollision(t)
                    \/ \E v \in ImpactSpeeds, g \in BOOLEAN, s \in BOOLEAN : CollideEvent(v, g, s)
         /\ (isDisabled /\ ~isDisabled')
              => /\ health' = FULL_HEALTH
                 /\ (repair \/ \E d \in Deltas : update(d)) ]_vars

\* the countdown of a disabled car is under way, health still 0
C33_Witness ==
  isDisabled /\ health = 0 /\ 0 < disableTimer /\ disableTimer < DISABLE_DURATION

\* C34: once raceStatus.raceFinished is true, neither applyControls nor update
\* (autopilot started or not) applies a force or a torque to the body.
C34_NoForceOnceFinished ==
  [][ (/\ raceStatus.raceFinished
       /\ \/ \E i \in RaceInputs : applyControls(i)
          \/ \E d \in Deltas : update(d))
        => forceCalls' = 0 ]_vars

\* C35: after the cleanup of the GameCanvas effect has run, no frame of animate
\* calls applyControls, update or the physics step on the disposed car and
\* world, and none writes health or raceStatus into React state.
C35_NoFrameAfterCleanup ==
  [][ cleanedUp
        => /\ ~(sAnimateApplyControls \/ sAnimateCarUpdate \/ sAnimatePhysics)
           /\ reactHealth' = reactHealth
           /\ reactRaceStatus' = reactRaceStatus ]_vars

\* C36: every render passes to the HUD the car's health, isDisabled and
\* disableTimer, also when health is 0 and the car is disabled.
C36_HudShowsCarState ==
  [][ render
        => hudProps' = [health |-> health, isDisabled |-> isDisabled,
                        disableTimeRemaining |-> disableTimer] ]_vars

====
